---- MODULE Spec2Model ----
(***************************************************************************)
(* Model of analysis.py: main() and the functions it calls                 *)
(* (load_latest_month_csv, filter_by_day_range, plot_inout_window,         *)
(* plot_pollen_window).  One run of main() is one behaviour; pc is the     *)
(* position of the run in the code.                                        *)
(*                                                                         *)
(* Library behaviour is abstracted as follows.                             *)
(*  - A raw cell of the dt column is either empty (read_csv gives NaN,     *)
(*    which pd.to_datetime turns into NaT under every format) or a string, *)
(*    described by the set `acc` of formats under which pd.to_datetime     *)
(*    accepts it and by the instant (day of month, minute of day) it       *)
(*    denotes.                                                             *)
(*  - DataFrame.sort_values("dt") uses the default kind="quicksort", which *)
(*    pandas documents as not stable: the order of rows with equal keys is *)
(*    a nondeterministic choice.  NaT keys go last (na_position="last").   *)
(*  - Series.astype(float) on an object column holding pd.NA raises in the *)
(*    pandas versions that keep pd.NA there; this is a nondeterministic    *)
(*    choice between raising and drawing.                                  *)
(*  - The ghost key "_line" of a row is the row's position in the file; it *)
(*    is no column and is read by no action.                               *)
(***************************************************************************)
EXTENDS Integers, Sequences, FiniteSets, TLC

\* Largest number of data rows in an input file.
MaxRows == 3

----------------------------------------------------------------------------
\* Generic helpers

Range(s) == {s[i] : i \in 1..Len(s)}

Contains(s, x) == \E i \in 1..Len(s) : s[i] = x

RECURSIVE SeqsUpTo(_, _)
SeqsUpTo(S, n) ==
    IF n = 0 THEN {<<>>}
    ELSE LET shorter == SeqsUpTo(S, n - 1)
         IN  shorter \cup {Append(s, x) : s \in {t \in shorter : Len(t) = n - 1}, x \in S}

\* Python's format(n, "02d") for a non-negative int
Fmt02d(n) == IF n < 10 THEN "0" \o ToString(n) ELSE ToString(n)

----------------------------------------------------------------------------
\* Constants of the program

\* for fmt in (None, "%Y/%m/%d %H:%M", "%Y-%m-%d %H:%M")
Formats == <<"None", "%Y/%m/%d %H:%M", "%Y-%m-%d %H:%M">>

need_cols == <<"dt", "in_worker", "out_worker", "in_pollen", "out_pollen",
               "in_drone", "out_drone">>

----------------------------------------------------------------------------
\* Values of cells

NaN == [k |-> "nan", acc |-> {}, day |-> 0, tod |-> 0]
NaT == [k |-> "NaT", acc |-> {}, day |-> 0, tod |-> 0]
Str(a, d, t) == [k |-> "str", acc |-> a, day |-> d, tod |-> t]
Timestamp(d, t) == [k |-> "ts", acc |-> {}, day |-> d, tod |-> t]

\* pollen_rate values: a quotient n/d of two counts, or pd.NA
NA == [k |-> "NA", n |-> 0, d |-> 1]
Quot(n, d) == [k |-> "num", n |-> n, d |-> d]

----------------------------------------------------------------------------
\* Input files.  A table is what pd.read_csv returns for one file: the header
\* and the rows, each row a function from the column names to cell values.

FormatSet == Range(Formats)

AllNames == <<"dt", "in_worker", "out_worker", "in_pollen", "inpollen",
              "out_pollen", "outpollen", "in_drone", "out_drone", "pollen_rate">>

Keep(s, K) == SelectSeq(s, LAMBDA c : c \in K)

\* Headers: any choice of the known names, a pollen column under at most one
\* of its two spellings.
ColumnLists ==
    {Keep(AllNames, K) : K \in {K \in SUBSET Range(AllNames) :
                                   /\ ~({"in_pollen", "inpollen"} \subseteq K)
                                   /\ ~({"out_pollen", "outpollen"} \subseteq K)}}

FullCols == Keep(AllNames, Range(need_cols))
FullColsRate == Keep(AllNames, Range(need_cols) \cup {"pollen_rate"})

CellOf(c, line, r) ==
    CASE c = "_line" -> line
      [] c = "dt" -> r.dt
      [] c = "in_worker" -> r.iw
      [] c \in {"in_pollen", "inpollen"} -> r.ip
      [] c = "in_drone" -> r.idr
      [] c = "pollen_rate" -> r.pr
      [] OTHER -> 0

MkRow(cols, line, r) == [c \in Range(cols) \cup {"_line"} |-> CellOf(c, line, r)]

MkTable(cols, rs) ==
    [columns |-> cols, rows |-> [i \in 1..Len(rs) |-> MkRow(cols, i, rs[i])]]

\* An instant that differs from line to line and falls in each window in turn
PosDay(i) == ((i - 1) % 3) * 10 + 5
PosCell(i) == Str(FormatSet, PosDay(i), 480 + i)

RowSpec(dt, iw, ip, idr) == [dt |-> dt, iw |-> iw, ip |-> ip, idr |-> idr, pr |-> Quot(1, 2)]

\* A dt cell whose instant is set from its line, accepted by the formats a
PosDt(a) == [k |-> "pos", acc |-> a, day |-> 0, tod |-> 0]

AtPos(rs) == [i \in 1..Len(rs) |->
                 IF rs[i].dt.k = "pos"
                 THEN [rs[i] EXCEPT !.dt = [PosCell(i) EXCEPT !.acc = rs[i].dt.acc]]
                 ELSE rs[i]]

\* dt cells that vary in the formats accepting them
ParseRows == {RowSpec(NaN, 3, 1, 0)} \cup
             {RowSpec(PosDt(a), 3, 1, 0) : a \in SUBSET FormatSet}

\* dt cells that vary in the instant: the window boundaries, month ends, empty
Instants == {<<1, 0>>, <<10, 1439>>, <<11, 0>>, <<20, 1439>>, <<21, 0>>,
             <<28, 720>>, <<31, 1439>>}
TimeRows == {RowSpec(NaN, 3, 1, 0)} \cup
            {RowSpec(Str(FormatSet, i[1], i[2]), 3, 1, 0) : i \in Instants}

\* rows that vary in the inbound counts
CountRows == {RowSpec(PosDt(FormatSet), iw, ip, idr) :
                 iw \in {0, 3}, ip \in {0, 1}, idr \in {0, 1}}

\* rows of the files that vary in the header
HeaderRows == {<<>>, <<RowSpec(PosDt(FormatSet), 3, 1, 0)>>, <<RowSpec(PosDt(FormatSet), 0, 0, 0)>>}

Tables ==
    {MkTable(FullCols, AtPos(rs)) : rs \in SeqsUpTo(ParseRows, MaxRows)}
    \cup {MkTable(FullCols, rs) : rs \in SeqsUpTo(TimeRows, MaxRows)}
    \cup {MkTable(cols, AtPos(rs)) : cols \in {FullCols, FullColsRate},
                                     rs \in SeqsUpTo(CountRows, MaxRows)}
    \cup {MkTable(cols, AtPos(rs)) : cols \in ColumnLists, rs \in HeaderRows}

\* data/ holds no matching file, or one
DataDirs == {<<>>} \cup {<<t>> : t \in Tables}

----------------------------------------------------------------------------
\* The functions of load_latest_month_csv

\* Faulty variant of rename_map: both aliases renamed to in_pollen
rename_map_CopyPaste(columns) ==
    LET m1 == IF Contains(columns, "inpollen")
              THEN [c \in {"inpollen"} |-> "in_pollen"] ELSE <<>>
        m2 == IF Contains(columns, "outpollen")
              THEN [c \in {"outpollen"} |-> "in_pollen"] ELSE <<>>
    IN  m1 @@ m2

\* rename_map = {}; if "inpollen" in df.columns: ...; if "outpollen" in ...
rename_map(columns) ==
    LET m1 == IF Contains(columns, "inpollen")
              THEN [c \in {"inpollen"} |-> "in_pollen"] ELSE <<>>
        m2 == IF Contains(columns, "outpollen")
              THEN [c \in {"outpollen"} |-> "out_pollen"] ELSE <<>>
    IN  m1 @@ m2

\* df.rename(columns=m): labels in m are replaced, the cells stay
NewName(m, c) == IF c \in DOMAIN m THEN m[c] ELSE c

RenameRow(m, row) ==
    [c \in {NewName(m, k) : k \in DOMAIN row} |->
        row[CHOOSE k \in DOMAIN row : NewName(m, k) = c]]

rename(d, m) ==
    [d EXCEPT !.columns = [i \in 1..Len(d.columns) |-> NewName(m, d.columns[i])],
              !.rows = [i \in 1..Len(d.rows) |-> RenameRow(m, d.rows[i])]]

\* Faulty variant of missing: out_drone left out of the required list
missing_Short(columns) ==
    SelectSeq(need_cols, LAMBDA c : c # "out_drone" /\ ~Contains(columns, c))

\* Faulty variant of missing: the whole required list reported when any
\* column is absent
missing_All(columns) ==
    IF \A i \in 1..Len(need_cols) : Contains(columns, need_cols[i]) THEN <<>> ELSE need_cols

\* missing = [c for c in need_cols if c not in df.columns]
missing(columns) == SelectSeq(need_cols, LAMBDA c : ~Contains(columns, c))

\* Faulty variant of pollen_rate: a zero sum gives 0 instead of pd.NA
pollen_rate_ZeroFill(row) ==
    LET total_in == row["in_worker"] + row["in_pollen"] + row["in_drone"]
        pollen_in == row["in_pollen"]
    IN  IF total_in = 0 THEN Quot(0, 1) ELSE Quot(pollen_in, total_in)

\* total_in = in_worker + in_pollen + in_drone;
\* pollen_in / total_in.replace(0, pd.NA)
pollen_rate(row) ==
    LET total_in == row["in_worker"] + row["in_pollen"] + row["in_drone"]
        pollen_in == row["in_pollen"]
    IN  IF total_in = 0 THEN NA ELSE Quot(pollen_in, total_in)

WithPollenRate(d) ==
    [d EXCEPT !.columns = Append(d.columns, "pollen_rate"),
              !.rows = [i \in 1..Len(d.rows) |->
                          d.rows[i] @@ [c \in {"pollen_rate"} |-> pollen_rate(d.rows[i])]]]

\* pd.to_datetime on one cell: an empty cell gives NaT under every format, a
\* string gives its instant under the formats that accept it
Accepts(fmt, cell) == cell.k = "nan" \/ (cell.k = "str" /\ fmt \in cell.acc)

to_datetime(cell) == IF cell.k = "nan" THEN NaT ELSE Timestamp(cell.day, cell.tod)

\* Faulty variant of ParsesAll: errors="coerce", no cell makes the call raise
ParsesAll_Coerce(d, fmt) == TRUE

\* pd.to_datetime on the column raises unless every cell is accepted
ParsesAll(d, fmt) == \A i \in 1..Len(d.rows) : Accepts(fmt, d.rows[i]["dt"])

WithParsedDt(d) ==
    [d EXCEPT !.rows = [i \in 1..Len(d.rows) |->
                          [d.rows[i] EXCEPT !["dt"] = to_datetime(@)]]]

\* Order of the keys of sort_values("dt"): ascending instants, NaT last
Minutes(cell) == cell.day * 1440 + cell.tod

KeyLess(a, b) ==
    IF a.k = "NaT" THEN FALSE
    ELSE IF b.k = "NaT" THEN TRUE
    ELSE Minutes(a) < Minutes(b)

Perms(n) == {p \in [1..n -> 1..n] : \A i, j \in 1..n : i # j => p[i] # p[j]}

\* The orders sort_values may produce: sorted on the key; rows with equal
\* instants in any order (quicksort); NaT rows in their original order
SortOrders(rows) ==
    {p \in Perms(Len(rows)) :
        \A i, j \in 1..Len(rows) :
            i < j =>
              /\ ~KeyLess(rows[p[j]]["dt"], rows[p[i]]["dt"])
              /\ (rows[p[i]]["dt"].k = "NaT" /\ rows[p[j]]["dt"].k = "NaT") => p[i] < p[j]}

RangeIndex(n) == [i \in 1..n |-> i - 1]

\* df.sort_values("dt").reset_index(drop=True), for the order p
sort_reset(d, p) ==
    [d EXCEPT !.rows = [i \in 1..Len(d.rows) |-> d.rows[p[i]]],
              !.index = RangeIndex(Len(d.rows))]

----------------------------------------------------------------------------
\* The functions of main and of the windows

\* Faulty variant of IsEmpty: the renderers never skip
IsEmpty_Never(d) == FALSE

\* dff.empty
IsEmpty(d) == Len(d.rows) = 0

\* Faulty variant of DayMax: the month taken to have 31 days
DayMax_Calendar(d) == [k |-> "int", v |-> 31]

\* df["dt"].dt.day.max(): an int when every row has an instant, a float when
\* some row is NaT, nan when no row has an instant
DayMax(d) ==
    LET days == {d.rows[i]["dt"].day : i \in {j \in 1..Len(d.rows) : d.rows[j]["dt"].k = "ts"}}
        hasNaT == \E i \in 1..Len(d.rows) : d.rows[i]["dt"].k = "NaT"
    IN  IF days = {} THEN [k |-> "nan", v |-> 0]
        ELSE [k |-> IF hasNaT THEN "float" ELSE "int",
              v |-> CHOOSE m \in days : \A x \in days : x <= m]

Windows(last) ==
    << [day_start |-> 1, day_end |-> 10, label |-> "01-10"],
       [day_start |-> 11, day_end |-> 20, label |-> "11-20"],
       [day_start |-> 21, day_end |-> last, label |-> "21-" \o Fmt02d(last)] >>

\* Faulty variant of InRange: the upper end compared as an instant, midnight
\* of day_end
InRange_Midnight(cell, day_start, day_end) ==
    cell.k = "ts" /\ cell.day >= day_start /\ cell.day * 1440 + cell.tod <= day_end * 1440

\* df[(df["dt"].dt.day >= day_start) & (df["dt"].dt.day <= day_end)].copy()
\* (a comparison with the day of NaT is False)
InRange(cell, day_start, day_end) ==
    cell.k = "ts" /\ cell.day >= day_start /\ cell.day <= day_end

filter_by_day_range(d, day_start, day_end) ==
    LET keep == SelectSeq([i \in 1..Len(d.rows) |-> i],
                          LAMBDA i : InRange(d.rows[i]["dt"], day_start, day_end))
    IN  [columns |-> d.columns,
         index |-> [k \in 1..Len(keep) |-> d.index[keep[k]]],
         rows |-> [k \in 1..Len(keep) |-> d.rows[keep[k]]]]

\* dff["pollen_rate"].astype(float) meets a pd.NA
HasNA(d) == \E i \in 1..Len(d.rows) : d.rows[i]["pollen_rate"].k = "NA"

----------------------------------------------------------------------------
\* State of one run of main()

VARIABLES
    pc,        \* position of the run in main() and the functions it calls
    dataDir,   \* the files data/ holds that match *_TX2_6_inout.csv, sorted
    raw,       \* the table pd.read_csv returned
    df,        \* the DataFrame df of load_latest_month_csv, then of main
    fmtIdx,    \* position of the loop over the formats
    tried,     \* the formats pd.to_datetime was called with, in order
    err,       \* the exception that ended the run: its type, its message, the
               \* values formatted into the message, the position it was raised at
    outDir,    \* whether output/ exists
    saved,     \* the paths plt.savefig was called with, in order
    stdout,    \* the lines printed
    last_day,  \* last_day of main
    windows,   \* windows of main
    wi,        \* position of the loop over the windows
    dff        \* dff of main

vars == <<pc, dataDir, raw, df, fmtIdx, tried, err, outDir, saved, stdout,
          last_day, windows, wi, dff>>

NoDF == [columns |-> <<>>, index |-> <<>>, rows |-> <<>>]
NoErr == [type |-> "", msg |-> "", args |-> <<>>, at |-> ""]
NoDay == [k |-> "unset", v |-> 0]

Init ==
    /\ pc = "main"
    /\ dataDir \in DataDirs
    /\ raw = NoDF
    /\ df = NoDF
    /\ fmtIdx = 1
    /\ tried = <<>>
    /\ err = NoErr
    /\ outDir \in BOOLEAN
    /\ saved = <<>>
    /\ stdout = <<>>
    /\ last_day = NoDay
    /\ windows = <<>>
    /\ wi = 1
    /\ dff = NoDF

Raise(type, msg, args) ==
    /\ pc' = "raised"
    /\ err' = [type |-> type, msg |-> msg, args |-> args, at |-> pc]

\* main: print; OUT_DIR.mkdir(parents=True, exist_ok=True)
Mkdir ==
    /\ pc = "main"
    /\ outDir' = TRUE
    /\ stdout' = Append(stdout, "[INFO] Start 10-day window analysis...")
    /\ pc' = "glob"
    /\ UNCHANGED <<dataDir, raw, df, fmtIdx, tried, err, saved, last_day, windows, wi, dff>>

\* load_latest_month_csv: files = sorted(glob); if not files: raise;
\* df = pd.read_csv(files[-1])
ReadCsv ==
    /\ pc = "glob"
    /\ IF dataDir = <<>>
       THEN /\ Raise("FileNotFoundError", "No *_TX2_6_inout.csv found in data/", <<>>)
            /\ UNCHANGED <<raw, df, stdout>>
       ELSE LET t == dataDir[Len(dataDir)]
                d == [columns |-> t.columns, index |-> RangeIndex(Len(t.rows)), rows |-> t.rows]
            IN  /\ raw' = d
                /\ df' = d
                /\ stdout' = Append(stdout, "[INFO] Using input file")
                /\ pc' = "rename"
                /\ err' = err
    /\ UNCHANGED <<dataDir, fmtIdx, tried, outDir, saved, last_day, windows, wi, dff>>

\* if rename_map: df = df.rename(columns=rename_map)
Rename ==
    /\ pc = "rename"
    /\ LET m == rename_map(df.columns)
       IN  df' = IF DOMAIN m # {} THEN rename(df, m) ELSE df
    /\ pc' = "need_cols"
    /\ UNCHANGED <<dataDir, raw, fmtIdx, tried, err, outDir, saved, stdout, last_day, windows, wi, dff>>

\* if missing: raise ValueError(f"Missing required columns: {missing}")
CheckCols ==
    /\ pc = "need_cols"
    /\ IF missing(df.columns) # <<>>
       THEN Raise("ValueError", "Missing required columns: ", <<missing(df.columns)>>)
       ELSE pc' = "pollen_rate" /\ err' = err
    /\ UNCHANGED <<dataDir, raw, df, fmtIdx, tried, outDir, saved, stdout, last_day, windows, wi, dff>>

\* if 'pollen_rate' not in df.columns: df['pollen_rate'] = ...
DerivePollenRate ==
    /\ pc = "pollen_rate"
    /\ IF ~Contains(df.columns, "pollen_rate")
       THEN /\ df' = WithPollenRate(df)
            /\ stdout' = Append(stdout, "[INFO] pollen_rate not found, calculating automatically...")
       ELSE UNCHANGED <<df, stdout>>
    /\ pc' = "to_datetime"
    /\ UNCHANGED <<dataDir, raw, fmtIdx, tried, err, outDir, saved, last_day, windows, wi, dff>>

\* One turn of: for fmt in (...): try: df["dt"] = pd.to_datetime(...); break
\*              except Exception: continue
\*              else: raise ValueError("Cannot parse dt datetime format")
TryFormat ==
    /\ pc = "to_datetime"
    /\ IF fmtIdx > Len(Formats)
       THEN /\ Raise("ValueError", "Cannot parse dt datetime format", <<>>)
            /\ UNCHANGED <<df, fmtIdx, tried>>
       ELSE /\ tried' = Append(tried, Formats[fmtIdx])
            /\ err' = err
            /\ IF ParsesAll(df, Formats[fmtIdx])
               THEN df' = WithParsedDt(df) /\ pc' = "sort_values" /\ fmtIdx' = fmtIdx
               ELSE df' = df /\ pc' = pc /\ fmtIdx' = fmtIdx + 1
    /\ UNCHANGED <<dataDir, raw, outDir, saved, stdout, last_day, windows, wi, dff>>

\* df = df.sort_values("dt").reset_index(drop=True); return df
SortReset ==
    /\ pc = "sort_values"
    /\ \E p \in SortOrders(df.rows) : df' = sort_reset(df, p)
    /\ pc' = "last_day"
    /\ UNCHANGED <<dataDir, raw, fmtIdx, tried, err, outDir, saved, stdout, last_day, windows, wi, dff>>

\* last_day = df["dt"].dt.day.max(); windows = [...]: f"21-{last_day:02d}"
\* raises ValueError when last_day is a float
MakeWindows ==
    /\ pc = "last_day"
    /\ last_day' = DayMax(df)
    /\ IF DayMax(df).k = "int"
       THEN windows' = Windows(DayMax(df).v) /\ pc' = "filter" /\ err' = err
       ELSE /\ Raise("ValueError", "Unknown format code 'd' for object of type 'float'", <<>>)
            /\ windows' = windows
    /\ UNCHANGED <<dataDir, raw, df, fmtIdx, tried, outDir, saved, stdout, wi, dff>>

\* for day_start, day_end, label in windows: dff = filter_by_day_range(...)
Filter ==
    /\ pc = "filter"
    /\ IF wi > Len(windows)
       THEN /\ stdout' = Append(stdout, "[INFO] Done.")
            /\ pc' = "done"
            /\ dff' = dff
       ELSE LET w == windows[wi]
                r == filter_by_day_range(df, w.day_start, w.day_end)
            IN  /\ dff' = r
                /\ stdout' = Append(stdout, "[INFO] Day " \o Fmt02d(w.day_start) \o "-"
                                            \o Fmt02d(w.day_end) \o ": "
                                            \o ToString(Len(r.rows)) \o " rows")
                /\ pc' = "plot_inout"
    /\ UNCHANGED <<dataDir, raw, df, fmtIdx, tried, err, outDir, saved, last_day, windows, wi>>

\* plot_inout_window(dff, label)
PlotInout ==
    /\ pc = "plot_inout"
    /\ LET label == windows[wi].label
       IN  IF IsEmpty(dff)
           THEN /\ stdout' = Append(stdout, "[WARN] inout " \o label \o " no data, skip")
                /\ UNCHANGED <<outDir, saved>>
           ELSE /\ outDir' = TRUE
                /\ saved' = Append(saved, "output/inout_" \o label \o ".png")
                /\ stdout' = Append(stdout, "[INFO] Saved figure: output/inout_" \o label \o ".png")
    /\ pc' = "plot_pollen"
    /\ UNCHANGED <<dataDir, raw, df, fmtIdx, tried, err, last_day, windows, wi, dff>>

\* plot_pollen_window(dff, label), then the next window
PlotPollen ==
    /\ pc = "plot_pollen"
    /\ LET label == windows[wi].label
       IN  IF IsEmpty(dff)
           THEN /\ stdout' = Append(stdout, "[WARN] pollen " \o label \o " no data, skip")
                /\ pc' = "filter" /\ wi' = wi + 1
                /\ UNCHANGED <<outDir, saved, err>>
           ELSE \E raises \in IF HasNA(dff) THEN BOOLEAN ELSE {FALSE} :
                  IF raises
                  THEN /\ Raise("TypeError", "float() argument must be a string or a real number, not 'NAType'", <<>>)
                       /\ UNCHANGED <<outDir, saved, stdout, wi>>
                  ELSE /\ outDir' = TRUE
                       /\ saved' = Append(saved, "output/pollen_" \o label \o ".png")
                       /\ stdout' = Append(stdout, "[INFO] Saved figure: output/pollen_" \o label \o ".png")
                       /\ pc' = "filter" /\ wi' = wi + 1
                       /\ err' = err
    /\ UNCHANGED <<dataDir, raw, df, fmtIdx, tried, last_day, windows, dff>>

Next ==
    \/ Mkdir
    \/ ReadCsv
    \/ Rename
    \/ CheckCols
    \/ DerivePollenRate
    \/ TryFormat
    \/ SortReset
    \/ MakeWindows
    \/ Filter
    \/ PlotInout
    \/ PlotPollen

Spec == Init /\ [][Next]_vars

----------------------------------------------------------------------------
\* Vocabulary of the properties

\* The positions of a run, in program order
Order == <<"main", "glob", "rename", "need_cols", "pollen_rate", "to_datetime",
           "sort_values", "last_day", "filter", "plot_inout", "plot_pollen", "done">>

Rank(p) == CHOOSE i \in 1..Len(Order) : Order[i] = p

\* Where the run is, or where it was when it raised
Pos == IF pc = "raised" THEN err.at ELSE pc

\* The statement at position p has completed without raising
Past(p) == Rank(Pos) > Rank(p)

\* The file the run reads
Input == dataDir[Len(dataDir)]

\* The canonical spelling of a column name
CanonName(c) ==
    IF c = "inpollen" THEN "in_pollen" ELSE IF c = "outpollen" THEN "out_pollen" ELSE c

\* The required columns a header lacks under either spelling, in the order of
\* the required list
Absent(t) ==
    SelectSeq(need_cols,
              LAMBDA c : \A i \in 1..Len(t.columns) : CanonName(t.columns[i]) # c)

\* A raw dt cell converts under format f
CellParses(f, cell) == cell.k = "nan" \/ f \in cell.acc

\* Format f converts every dt cell of table t
ColumnParses(f, t) == \A i \in 1..Len(t.rows) : CellParses(f, t.rows[i]["dt"])

NoInputFile == dataDir = <<>>
ColumnMissing == dataDir # <<>> /\ Absent(Input) # <<>>
Unparseable ==
    /\ dataDir # <<>>
    /\ Absent(Input) = <<>>
    /\ \A f \in FormatSet : ~ColumnParses(f, Input)

StructuralFailure == NoInputFile \/ ColumnMissing \/ Unparseable

\* The row of the file a row of a DataFrame was read from
RawOf(row) == raw.rows[row["_line"]]

\* The inbound pollen count of a row of the file, under either spelling
InPollenOf(r) == IF "in_pollen" \in DOMAIN r THEN r["in_pollen"] ELSE r["inpollen"]

InboundOf(r) == r["in_worker"] + InPollenOf(r) + r["in_drone"]

Aliases == {"inpollen", "outpollen"}

----------------------------------------------------------------------------
\* C1: a run whose input is missing, lacks a required column or has a dt
\* column no format converts never gets past the load: it writes no file,
\* builds no window, filters and renders nothing, and when it stops it has
\* raised; output/ exists but holds nothing from the run.
C1_FailedLoadWritesNothing ==
    StructuralFailure =>
        /\ saved = <<>>
        /\ windows = <<>>
        /\ dff = NoDF
        /\ Rank(Pos) <= Rank("to_datetime")
        /\ (~ENABLED Next) => (pc = "raised" /\ outDir)

C1_Witness ==
    /\ pc = "raised"
    /\ Unparseable
    /\ Len(Input.rows) = MaxRows
    /\ err.msg = "Cannot parse dt datetime format"
    /\ outDir /\ saved = <<>>

----------------------------------------------------------------------------
----------------------------------------------------------------------------
\* C10: after the renaming step the DataFrame is the file's table with each
\* alias spelled canonically (same column positions, same cells, same rows in
\* the same order), so a file using inpollen/outpollen continues exactly as
\* the file with the canonical names and equal values; with no alias in the
\* header the step changes nothing; the required-column verdict and the
\* derived pollen_rate are those of the canonical spelling; no alias name is
\* left in df or in any window's dff.
C10_AliasReconciled ==
    Past("rename") =>
        /\ Len(df.columns) >= Len(raw.columns)
        /\ \A j \in 1..Len(raw.columns) : df.columns[j] = CanonName(raw.columns[j])
        /\ Len(df.rows) = Len(raw.rows)
        /\ \A i \in 1..Len(df.rows) :
              /\ \A k \in DOMAIN RawOf(df.rows[i]) :
                    k # "dt" => df.rows[i][CanonName(k)] = RawOf(df.rows[i])[k]
              /\ DOMAIN df.rows[i] \ {"pollen_rate"}
                    = {CanonName(k) : k \in DOMAIN RawOf(df.rows[i])} \ {"pollen_rate"}
              /\ DOMAIN df.rows[i] \cap Aliases = {}
        /\ Range(df.columns) \cap Aliases = {}
        /\ Range(dff.columns) \cap Aliases = {}
        /\ \A i \in 1..Len(dff.rows) : DOMAIN dff.rows[i] \cap Aliases = {}
        /\ (pc = "need_cols" /\ Range(raw.columns) \cap Aliases = {}) => df = raw
        /\ Past("need_cols") => Absent(Input) = <<>>
        /\ (pc = "raised" /\ err.at = "need_cols") => Absent(Input) # <<>>
        /\ (Past("pollen_rate") /\ ~Contains(raw.columns, "pollen_rate")) =>
              \A i \in 1..Len(df.rows) :
                 LET r == RawOf(df.rows[i])
                 IN  df.rows[i]["pollen_rate"] =
                        IF InboundOf(r) = 0 THEN NA ELSE Quot(InPollenOf(r), InboundOf(r))

C10_Witness ==
    /\ pc = "to_datetime"
    /\ Contains(raw.columns, "inpollen") /\ Contains(raw.columns, "outpollen")
    /\ Contains(df.columns, "in_pollen") /\ Contains(df.columns, "out_pollen")
    /\ Len(df.rows) = 1
    /\ df.rows[1]["pollen_rate"] = Quot(1, 4)

----------------------------------------------------------------------------
\* C7: when the file has no pollen_rate column every row gets
\* in_pollen / (in_worker + in_pollen + in_drone) when that sum is not zero
\* (0.25 for 3, 1, 0) and pd.NA when it is zero, and computing it never
\* raises; when the file has a pollen_rate column its values are kept and
\* no column is added.
C7_PollenRate ==
    /\ ~(pc = "raised" /\ err.at = "pollen_rate")
    /\ Past("pollen_rate") =>
          \A i \in 1..Len(df.rows) :
             LET row == df.rows[i]
                 r == RawOf(row)
                 rate == row["pollen_rate"]
             IN  IF "pollen_rate" \in DOMAIN r
                 THEN /\ rate = r["pollen_rate"]
                      /\ Len(df.columns) = Len(raw.columns)
                 ELSE /\ Len(df.columns) = Len(raw.columns) + 1
                      /\ InboundOf(r) # 0 =>
                            /\ rate.k = "num"
                            /\ rate.n * InboundOf(r) = InPollenOf(r) * rate.d
                            /\ rate.d # 0
                      /\ InboundOf(r) = 0 => rate.k = "NA"
                      /\ (r["in_worker"] = 3 /\ InPollenOf(r) = 1 /\ r["in_drone"] = 0) =>
                            (rate.k = "num" /\ 4 * rate.n = rate.d)

C7_Witness ==
    /\ pc = "sort_values"
    /\ ~Contains(raw.columns, "pollen_rate")
    /\ \E i, j \in 1..Len(df.rows) :
          /\ InboundOf(RawOf(df.rows[i])) = 0 /\ df.rows[i]["pollen_rate"] = NA
          /\ RawOf(df.rows[j])["in_worker"] = 3 /\ df.rows[j]["pollen_rate"] = Quot(1, 4)

----------------------------------------------------------------------------
\* C8: pd.to_datetime is tried with the formats in the order None,
\* %Y/%m/%d %H:%M, %Y-%m-%d %H:%M; every format tried before the last one
\* failed on some row; while the loop runs the dt column is the file's; once
\* the loop is left the format tried last converts every row, it is the one
\* applied and no later one was tried; the load raises "Cannot parse dt
\* datetime format" exactly when all three were tried and none converts every
\* row; the table always has as many rows as the file.
C8_FormatsInOrder ==
    /\ Len(tried) <= Len(Formats)
    /\ \A i \in 1..Len(tried) : tried[i] = Formats[i]
    /\ Past("glob") => Len(df.rows) = Len(raw.rows)
    /\ pc = "to_datetime" =>
          /\ \A i \in 1..Len(tried) : ~ColumnParses(tried[i], raw)
          /\ \A i \in 1..Len(df.rows) : df.rows[i]["dt"] = raw.rows[i]["dt"]
    /\ Past("to_datetime") =>
          /\ tried # <<>>
          /\ ColumnParses(tried[Len(tried)], raw)
          /\ \A i \in 1..(Len(tried) - 1) : ~ColumnParses(tried[i], raw)
          /\ \A i \in 1..Len(df.rows) :
                LET cell == RawOf(df.rows[i])["dt"]
                IN  df.rows[i]["dt"] =
                       IF cell.k = "nan" THEN NaT ELSE Timestamp(cell.day, cell.tod)
    /\ (pc = "raised" /\ err.at = "to_datetime") =>
          /\ err.type = "ValueError" /\ err.msg = "Cannot parse dt datetime format"
          /\ tried = Formats
          /\ \A f \in FormatSet : ~ColumnParses(f, raw)
          /\ \A i \in 1..Len(df.rows) : df.rows[i]["dt"] = raw.rows[i]["dt"]
    /\ (Past("pollen_rate") /\ \A f \in FormatSet : ~ColumnParses(f, raw)) =>
          Rank(Pos) = Rank("to_datetime")

C8_Witness ==
    /\ pc = "sort_values"
    /\ tried = Formats
    /\ Len(df.rows) = MaxRows
    /\ \E i \in 1..Len(df.rows) : df.rows[i]["dt"].k = "ts"

----------------------------------------------------------------------------
\* C9 as stated: the table load_latest_month_csv returns holds the rows of
\* the file, each once, ascending by dt, with the index 0..n-1, and rows with
\* equal dt are in the order they have in the file.
C9_SortedStable ==
    Past("sort_values") =>
        /\ Len(df.rows) = Len(raw.rows)
        /\ {df.rows[i]["_line"] : i \in 1..Len(df.rows)} = 1..Len(raw.rows)
        /\ df.index = [i \in 1..Len(df.rows) |-> i - 1]
        /\ \A i, j \in 1..Len(df.rows) :
              i < j =>
                 LET a == df.rows[i]["dt"]
                     b == df.rows[j]["dt"]
                 IN  /\ a.k = "NaT" => b.k = "NaT"
                     /\ (a.k = "ts" /\ b.k = "ts") =>
                           a.day * 1440 + a.tod <= b.day * 1440 + b.tod
                     /\ a = b => df.rows[i]["_line"] < df.rows[j]["_line"]

----------------------------------------------------------------------------
\* C5: once main has built the windows, the first two are (1, 10, "01-10")
\* and (11, 20, "11-20") and the third runs from 21 to the largest day of
\* month of any row of the file, with the label "21-" followed by that day in
\* two digits: "21-28" when it is 28, "21-31" when it is 31.
C5_LastWindow ==
    Past("last_day") =>
        /\ Len(windows) = 3
        /\ windows[1] = [day_start |-> 1, day_end |-> 10, label |-> "01-10"]
        /\ windows[2] = [day_start |-> 11, day_end |-> 20, label |-> "11-20"]
        /\ windows[3].day_start = 21
        /\ \E i \in 1..Len(raw.rows) : raw.rows[i]["dt"].day = windows[3].day_end
        /\ \A i \in 1..Len(raw.rows) : raw.rows[i]["dt"].day <= windows[3].day_end
        /\ windows[3].label =
              "21-" \o (IF windows[3].day_end < 10 THEN "0" ELSE "")
                    \o ToString(windows[3].day_end)
        /\ windows[3].day_end = 28 => windows[3].label = "21-28"
        /\ windows[3].day_end = 31 => windows[3].label = "21-31"
        /\ last_day = [k |-> "int", v |-> windows[3].day_end]

C5_Witness ==
    /\ pc = "filter"
    /\ windows[3].label = "21-28"
    /\ Len(df.rows) = MaxRows

----------------------------------------------------------------------------
\* C4: a call of filter_by_day_range for the window [day_start, day_end]
\* leaves df as it is and returns the rows of df whose day of month is in the
\* window, both ends included and whatever the time of day, each once and in
\* the order of df; a row at day 10 23:59 is in [1,10] and not in [11,20], a
\* row at day 11 00:00 is in [11,20] and not in [1,10].
C4_FilterByDayRange ==
    [][(pc = "filter" /\ pc' = "plot_inout") =>
          LET w == windows[wi]
              Kept(i) == \E k \in 1..Len(dff'.rows) : dff'.index[k] = df.index[i]
          IN  /\ df' = df
              /\ dff'.columns = df.columns
              /\ Len(dff'.index) = Len(dff'.rows)
              /\ \A i \in 1..Len(df.rows) :
                    /\ Kept(i) <=> (/\ w.day_start <= df.rows[i]["dt"].day
                                    /\ df.rows[i]["dt"].day <= w.day_end)
                    /\ (df.rows[i]["dt"].day = 10 /\ df.rows[i]["dt"].tod = 1439) =>
                          (Kept(i) <=> wi = 1)
                    /\ (df.rows[i]["dt"].day = 11 /\ df.rows[i]["dt"].tod = 0) =>
                          (Kept(i) <=> wi = 2)
              /\ \A k \in 1..Len(dff'.rows) :
                    \E i \in 1..Len(df.rows) :
                       dff'.index[k] = df.index[i] /\ dff'.rows[k] = df.rows[i]
              /\ \A k1, k2 \in 1..Len(dff'.rows) :
                    k1 < k2 => dff'.index[k1] < dff'.index[k2]
      ]_vars

C4_Witness ==
    /\ pc = "plot_inout"
    /\ wi = 1
    /\ Len(dff.rows) = 1
    /\ dff.rows[1]["dt"] = Timestamp(10, 1439)
    /\ \E i \in 1..Len(df.rows) : df.rows[i]["dt"] = Timestamp(11, 0)

----------------------------------------------------------------------------
\* C3: the files a run that reaches its end has written are exactly
\* inout_<label>.png and pollen_<label>.png for the windows that hold a row
\* of the file, with the labels "01-10", "11-20" and "21-<last day>"; each is
\* written once, none is written for a window without rows (at no point of
\* the run), and six are written exactly when all three windows hold a row.
RawDays == {raw.rows[i]["dt"].day : i \in 1..Len(raw.rows)}

FilesOf(label) == {"output/inout_" \o label \o ".png", "output/pollen_" \o label \o ".png"}

ExpectedFiles ==
    (IF \E d \in RawDays : 1 <= d /\ d <= 10 THEN FilesOf("01-10") ELSE {})
    \cup (IF \E d \in RawDays : 11 <= d /\ d <= 20 THEN FilesOf("11-20") ELSE {})
    \cup (IF \E d \in RawDays : 21 <= d
          THEN FilesOf("21-" \o ToString(CHOOSE m \in RawDays : \A d \in RawDays : d <= m))
          ELSE {})

C3_FilesWritten ==
    /\ Past("last_day") =>
          /\ Range(saved) \subseteq ExpectedFiles
          /\ Cardinality(Range(saved)) = Len(saved)
    /\ ~Past("last_day") => saved = <<>>
    /\ pc = "done" =>
          /\ Range(saved) = ExpectedFiles
          /\ outDir
          /\ Len(saved) = 6 <=> (/\ \E d \in RawDays : 1 <= d /\ d <= 10
                                 /\ \E d \in RawDays : 11 <= d /\ d <= 20
                                 /\ \E d \in RawDays : 21 <= d)

C3_Witness ==
    /\ pc = "done"
    /\ Len(saved) = 4
    /\ Contains(stdout, "[WARN] inout 11-20 no data, skip")
    /\ Contains(stdout, "[WARN] pollen 11-20 no data, skip")

----------------------------------------------------------------------------
\* C2 as stated: once the load has returned, a run in which nothing but the
\* emptiness of the windows varies (every row has an instant, no pollen_rate
\* is pd.NA) never raises, whichever of the three windows are empty, and ends
\* at "Done" with each window filtered and offered to both renderers.
C2_EmptyWindowNeverAborts ==
    (/\ Past("sort_values")
     /\ \A i \in 1..Len(df.rows) : df.rows[i]["dt"].k = "ts"
     /\ \A i \in 1..Len(df.rows) : df.rows[i]["pollen_rate"].k # "NA") =>
        /\ pc # "raised"
        /\ pc = "done" => Len(SelectSeq(stdout, LAMBDA l : l \in
                               {"[INFO] Start 10-day window analysis...",
                                "[INFO] Using input file",
                                "[INFO] pollen_rate not found, calculating automatically...",
                                "[INFO] Done."}))
                          + 9 = Len(stdout)

====
